---- MODULE Spec2Model ----
(***************************************************************************)
(* Model of recipes/android/src/java.pyx: the JNI proxy layer of           *)
(* python-for-android (parse_definition, JavaClass, JavaMethod).           *)
(*                                                                         *)
(* Text is modelled as a sequence of one-character strings, so that       *)
(* split(), indexing and comparison act on characters as in the source.    *)
(* A raise inside a cdef function is modelled as propagating to the        *)
(* caller, as the source's try/finally blocks and callers expect.          *)
(***************************************************************************)
EXTENDS Integers, Sequences, FiniteSets, TLC

VARIABLES
    pd,         \* the signature handed to parse_definition and what it returned
    build,      \* build-dependent facts of the compiled module (signedness of C char)
    decl,       \* the declared proxy type: __javaclass__, __javaconstructor__, members
    methods,    \* the JavaMethod objects of the proxy type (class attributes, shared)
    instances,  \* the JavaClass objects instantiated so far
    nextHandle, \* next reference the foreign runtime hands out
    op          \* the last operation performed, with the calls it made

vars == <<pd, build, decl, methods, instances, nextHandle, op>>

----------------------------------------------------------------------------
(* Bounds of the model *)

\* longest argument portion handed to parse_definition
MaxLen == 4
\* number of JavaClass instantiations attempted
MaxInstances == 2

----------------------------------------------------------------------------
(* Text helpers: str.split(sep) and sep.join(list) of Python *)

HasChar(s, c) == \E i \in 1..Len(s) : s[i] = c

FirstIndex(s, c) == CHOOSE i \in 1..Len(s) : s[i] = c /\ \A j \in 1..(i-1) : s[j] # c

RECURSIVE split(_, _)
split(s, sep) ==
    IF ~HasChar(s, sep) THEN <<s>>
    ELSE LET i == FirstIndex(s, sep)
         IN  <<SubSeq(s, 1, i-1)>> \o split(SubSeq(s, i+1, Len(s)), sep)

RECURSIVE join(_, _)
join(tokens, sep) ==
    IF tokens = <<>> THEN <<>>
    ELSE IF Len(tokens) = 1 THEN tokens[1]
    ELSE tokens[1] \o <<sep>> \o join(Tail(tokens), sep)

\* definition[1:]
DropFirst(s) == IF s = <<>> THEN <<>> ELSE Tail(s)

\* list.pop(-1)
Front(s) == SubSeq(s, 1, Len(s)-1)

----------------------------------------------------------------------------
(* parse_definition *)

\* parse_definition with the trailing empty token kept
parse_definition_KeepsEmptyToken(definition) ==
    LET parts == split(DropFirst(definition), ")")
    IN  IF Len(parts) # 2
        THEN [err |-> "ValueError", ret |-> <<>>, args |-> <<>>]
        ELSE [err |-> "", ret |-> parts[2],
              args |-> IF parts[1] # <<>> THEN split(parts[1], ";") ELSE <<>>]

parse_definition(definition) ==
    LET parts == split(DropFirst(definition), ")")
    IN  IF Len(parts) # 2
        THEN [err |-> "ValueError", ret |-> <<>>, args |-> <<>>]
        ELSE LET args == parts[1]
                 ret  == parts[2]
             IN  IF args # <<>>
                 THEN LET toks == split(args, ";")
                      IN  [err |-> "", ret |-> ret,
                           args |-> IF toks[Len(toks)] = <<>> THEN Front(toks) ELSE toks]
                 ELSE [err |-> "", ret |-> ret, args |-> <<>>]

----------------------------------------------------------------------------
(* Values *)

\* the NULL reference / pointer
NULL == 0

\* the JNIEnv pointer SDL_ANDROID_GetJNIEnv returns when the thread is attached
EnvHandle == 1

\* native (Python) values
PyInt(n)   == [t |-> "int",  v |-> n]
PyBool(b)  == [t |-> "bool", v |-> IF b THEN 1 ELSE 0]
PyText     == [t |-> "str",  v |-> 7]
PyNone     == [t |-> "none", v |-> 0]
\* a JavaObject whose obj field holds reference h
PyJavaObject(h) == [t |-> "jobj", v |-> h]

IsInt(py) == py.t \in {"int", "bool"}

\* text of signatures
Chars(c)  == <<c>>
JString   == <<"L","j","a","v","a","/","l","a","n","g","/","S","t","r","i","n","g">>
JStringSC == JString \o <<";">>
JOther    == <<"L","o">>
JArray    == <<"[","I">>
Sig(a, r) == <<"(">> \o a \o <<")">> \o r

\* one cell of the jvalue buffer; malloc leaves every cell unwritten
Cell(tag, v) == [t |-> tag, v |-> v]
Unwritten    == [t |-> "unwritten", v |-> 0]

\* one call made by an operation
Call(fn, recv, mid, name, args, res) ==
    [fn |-> fn, recv |-> recv, mid |-> mid, name |-> name, args |-> args, res |-> res]

----------------------------------------------------------------------------
(* Widths of the JNI primitive types (jni.pxi) and the C casts of call_method *)

\* range of the C type a Python integer is converted to when stored in a cell
CellRange(tag) ==
    CASE tag = "z" -> [lo |-> 0,      hi |-> 255]
      [] tag = "b" -> [lo |-> -128,   hi |-> 127]
      [] tag = "c" -> [lo |-> 0,      hi |-> 65535]
      [] tag = "s" -> [lo |-> -32768, hi |-> 32767]
      [] OTHER     -> [lo |-> -2147483647, hi |-> 2147483647]

\* value reduced to `bits` bits, read unsigned / signed
WrapUnsigned(v, bits) == v % (2^bits)
WrapSigned(v, bits) ==
    LET u == v % (2^bits) IN IF u >= 2^(bits-1) THEN u - 2^bits ELSE u

\* <char>x : C char is 8 bits, signed or unsigned as the build has it
CastChar(v, charSigned) == IF charSigned THEN WrapSigned(v, 8) ELSE WrapUnsigned(v, 8)
\* <short>x
CastShort(v) == WrapSigned(v, 16)
\* <int>x, <long>x : every integer of the model lies in the range of both
CastInt(v)  == v
CastLong(v) == v

----------------------------------------------------------------------------
(* JavaClass.populate_args *)

\* storing a Python object into an integer field of the jvalue union
ToCInt(tag, py_arg) ==
    IF ~IsInt(py_arg) THEN [err |-> "TypeError", cell |-> Unwritten]
    ELSE IF py_arg.v < CellRange(tag).lo \/ py_arg.v > CellRange(tag).hi
         THEN [err |-> "OverflowError", cell |-> Unwritten]
         ELSE [err |-> "", cell |-> Cell(tag, py_arg.v)]

\* storing a Python object into the float / double field
ToCFloat(tag, py_arg) ==
    IF ~IsInt(py_arg) THEN [err |-> "TypeError", cell |-> Unwritten]
    ELSE [err |-> "", cell |-> Cell(tag, py_arg.v)]

\* the reference NewStringUTF returns for a text
NewStringRef(py_arg) == 60 + py_arg.v

\* one turn of the loop of populate_args: the cell written for argtype (left
\* Unwritten when no branch assigns it), the error raised, the calls made
populate_arg(argtype, py_arg) ==
    IF argtype = Chars("Z") THEN ToCInt("z", py_arg) @@ [calls |-> <<>>]
    ELSE IF argtype = Chars("B") THEN ToCInt("b", py_arg) @@ [calls |-> <<>>]
    ELSE IF argtype = Chars("C") THEN ToCInt("c", py_arg) @@ [calls |-> <<>>]
    ELSE IF argtype = Chars("S") THEN ToCInt("s", py_arg) @@ [calls |-> <<>>]
    ELSE IF argtype = Chars("I") THEN ToCInt("i", py_arg) @@ [calls |-> <<>>]
    ELSE IF argtype = Chars("J") THEN ToCInt("j", py_arg) @@ [calls |-> <<>>]
    ELSE IF argtype = Chars("F") THEN ToCFloat("f", py_arg) @@ [calls |-> <<>>]
    ELSE IF argtype = Chars("D") THEN ToCFloat("d", py_arg) @@ [calls |-> <<>>]
    ELSE IF argtype = <<>>
         \* argtype[0] of an empty token
         THEN [err |-> "IndexError", cell |-> Unwritten, calls |-> <<>>]
    ELSE IF argtype[1] = "L" THEN
         IF argtype = JString THEN
              IF py_arg.t = "str"
              THEN [err |-> "", cell |-> Cell("l", NewStringRef(py_arg)),
                    calls |-> <<Call("NewStringUTF", NULL, NULL, "", <<>>,
                                     NewStringRef(py_arg))>>]
              ELSE IF py_arg.t = "none"
              THEN [err |-> "", cell |-> Cell("l", NULL), calls |-> <<>>]
              ELSE [err |-> "InvalidArgument", cell |-> Unwritten, calls |-> <<>>]
         ELSE IF py_arg.t # "jobj"
              THEN [err |-> "InvalidArgument", cell |-> Unwritten, calls |-> <<>>]
              ELSE [err |-> "", cell |-> Cell("l", py_arg.v), calls |-> <<>>]
    ELSE IF argtype[1] = "["
         \* raise NotImplemented(...): NotImplemented is not callable
         THEN [err |-> "TypeError", cell |-> Unwritten, calls |-> <<>>]
    ELSE [err |-> "", cell |-> Unwritten, calls |-> <<>>]

RECURSIVE populate_from(_, _, _, _, _)
populate_from(index, definition_args, j_args, args, calls) ==
    IF index > Len(definition_args)
    THEN [err |-> "", j_args |-> j_args, calls |-> calls]
    ELSE LET r == populate_arg(definition_args[index], args[index])
         IN  IF r.err # ""
             THEN [err |-> r.err, j_args |-> j_args, calls |-> calls \o r.calls]
             ELSE populate_from(index + 1, definition_args,
                                [j_args EXCEPT ![index] = r.cell], args,
                                calls \o r.calls)

populate_args(definition_args, j_args, args, calls) ==
    populate_from(1, definition_args, j_args, args, calls)

\* malloc(sizeof(jvalue) * len(d_args)): the buffer, nothing written yet
malloc(d_args) == [i \in 1..Len(d_args) |-> Unwritten]

\* len(args) != len(d_args), accepting surplus arguments
ArityMismatch_SurplusAccepted(args, d_args) == Len(args) < Len(d_args)

\* len(args) != len(d_args)
ArityMismatch(args, d_args) == Len(args) # Len(d_args)

\* the finally block that never frees
finally_free_Never(allocated, calls) == calls

\* finally: if j_args != NULL: free(j_args)
finally_free(allocated, calls) ==
    IF allocated THEN Append(calls, Call("free", NULL, NULL, "", <<>>, NULL)) ELSE calls

MallocCall == Call("malloc", NULL, NULL, "", <<>>, NULL)

----------------------------------------------------------------------------
(* JavaMethod.call_method and JavaMethod.call_staticmethod *)

\* ret_jobject = JavaObject(); ret_jobject.obj = j_object
\* or, for the string descriptor, the text read by GetStringUTFChars
decode_object(r, j_object, calls) ==
    IF r = JStringSC
    THEN [err |-> "", ret |-> [t |-> "str", v |-> j_object],
          calls |-> calls \o
              <<Call("GetStringUTFChars", j_object, NULL, "", <<>>, j_object),
                Call("ReleaseStringUTFChars", j_object, NULL, "", <<>>, NULL)>>]
    ELSE [err |-> "", ret |-> PyJavaObject(j_object), calls |-> calls]

call_method(jm, j_args, raw, charSigned, calls) ==
    IF jm.definition_return = <<>> THEN [err |-> "IndexError", ret |-> PyNone, calls |-> calls]
    ELSE
    LET r == Chars(jm.definition_return[1])
        made(fn) == Append(calls, Call(fn, jm.j_self, jm.j_method, jm.name, j_args, raw))
    IN  IF r = Chars("V") THEN
            [err |-> "", ret |-> PyNone, calls |-> made("CallVoidMethodA")]
        ELSE IF r = Chars("Z") THEN
            [err |-> "", ret |-> PyBool(raw # 0), calls |-> made("CallBooleanMethodA")]
        ELSE IF r = Chars("B") THEN
            [err |-> "", ret |-> PyInt(CastChar(raw, charSigned)),
             calls |-> made("CallByteMethodA")]
        ELSE IF r = Chars("C") THEN
            [err |-> "", ret |-> PyInt(CastChar(raw, charSigned)),
             calls |-> made("CallCharMethodA")]
        ELSE IF r = Chars("S") THEN
            [err |-> "", ret |-> PyInt(CastShort(raw)), calls |-> made("CallShortMethodA")]
        ELSE IF r = Chars("I") THEN
            [err |-> "", ret |-> PyInt(CastInt(raw)), calls |-> made("CallIntMethodA")]
        ELSE IF r = Chars("J") THEN
            [err |-> "", ret |-> PyInt(CastLong(raw)), calls |-> made("CallLongMethodA")]
        ELSE IF r = Chars("F") THEN
            [err |-> "", ret |-> PyInt(raw), calls |-> made("CallFloatMethodA")]
        ELSE IF r = Chars("D") THEN
            [err |-> "", ret |-> PyInt(raw), calls |-> made("CallDoubleMethodA")]
        ELSE IF r = Chars("L") THEN
            decode_object(r, raw, made("CallObjectMethodA"))
        ELSE IF r = Chars("[") THEN
            [err |-> "NotImplementedError", ret |-> PyNone, calls |-> calls]
        ELSE [err |-> "InvalidReturnDescriptor", ret |-> PyNone, calls |-> calls]

\* In the Byte and Float branches the statement ends after the name of the entry
\* point: nothing is called, and the local j_byte / j_float that is decoded was
\* never assigned by a call; `raw` stands for whatever it holds.
call_staticmethod(jm, j_args, raw, charSigned, calls) ==
    IF jm.definition_return = <<>> THEN [err |-> "IndexError", ret |-> PyNone, calls |-> calls]
    ELSE
    LET r == Chars(jm.definition_return[1])
        made(fn) == Append(calls, Call(fn, jm.j_cls, jm.j_method, jm.name, j_args, raw))
    IN  IF r = Chars("V") THEN
            [err |-> "", ret |-> PyNone, calls |-> made("CallStaticVoidMethodA")]
        ELSE IF r = Chars("Z") THEN
            [err |-> "", ret |-> PyBool(raw # 0), calls |-> made("CallStaticBooleanMethodA")]
        ELSE IF r = Chars("B") THEN
            [err |-> "", ret |-> PyInt(CastChar(raw, charSigned)), calls |-> calls]
        ELSE IF r = Chars("C") THEN
            [err |-> "", ret |-> PyInt(CastChar(raw, charSigned)),
             calls |-> made("CallStaticCharMethodA")]
        ELSE IF r = Chars("S") THEN
            [err |-> "", ret |-> PyInt(CastShort(raw)),
             calls |-> made("CallStaticShortMethodA")]
        ELSE IF r = Chars("I") THEN
            [err |-> "", ret |-> PyInt(CastInt(raw)), calls |-> made("CallStaticIntMethodA")]
        ELSE IF r = Chars("J") THEN
            [err |-> "", ret |-> PyInt(CastLong(raw)), calls |-> made("CallStaticLongMethodA")]
        ELSE IF r = Chars("F") THEN
            [err |-> "", ret |-> PyInt(raw), calls |-> calls]
        ELSE IF r = Chars("D") THEN
            [err |-> "", ret |-> PyInt(raw), calls |-> made("CallStaticDoubleMethodA")]
        ELSE IF r = Chars("L") THEN
            decode_object(r, raw, made("CallStaticObjectMethodA"))
        ELSE IF r = Chars("[") THEN
            [err |-> "NotImplementedError", ret |-> PyNone, calls |-> calls]
        ELSE [err |-> "InvalidReturnDescriptor", ret |-> PyNone, calls |-> calls]

----------------------------------------------------------------------------
(* JavaMethod.__init__ and JavaMethod.__call__ *)

\* the JavaMethod object a declaration  name = JavaMethod(definition, static=...)  builds
JavaMethod__init__(name, definition, static) ==
    LET p == parse_definition(definition)
    IN  [name |-> name, definition |-> definition,
         definition_return |-> p.ret, definition_args |-> p.args,
         is_static |-> static,
         j_method |-> NULL, j_env |-> NULL, j_cls |-> NULL, j_self |-> NULL, jc |-> 0]

\* the result of jm(*args): error raised, value returned, calls made, buffer passed
JavaMethod__call__(jm, args, raw, mallocOk, charSigned) ==
    LET d_args == jm.definition_args
        none   == [err |-> "", ret |-> PyNone, calls |-> <<>>, j_args |-> <<>>]
    IN  IF ArityMismatch(args, d_args)
        THEN [none EXCEPT !.err = "ArityMismatch"]
        ELSE IF Len(args) > 0 /\ ~mallocOk
        THEN [none EXCEPT !.err = "MemoryError"]
        ELSE
        LET allocated == Len(args) > 0
            p == IF allocated
                 THEN populate_args(d_args, malloc(d_args), args, <<MallocCall>>)
                 ELSE [err |-> "", j_args |-> <<>>, calls |-> <<>>]
        IN  IF p.err # ""
            THEN [err |-> p.err, ret |-> PyNone, j_args |-> p.j_args,
                  calls |-> finally_free(allocated, p.calls)]
            ELSE LET c == IF jm.is_static
                          THEN call_staticmethod(jm, p.j_args, raw, charSigned, p.calls)
                          ELSE call_method(jm, p.j_args, raw, charSigned, p.calls)
                 IN  [err |-> c.err, ret |-> c.ret, j_args |-> p.j_args,
                      calls |-> finally_free(allocated, c.calls)]

----------------------------------------------------------------------------
(* JavaClass: resolve_class, resolve_methods, call_constructor, __init__ *)

\* JavaClass.__cinit__
JavaClass__cinit__ == [j_env |-> NULL, j_cls |-> NULL, j_self |-> NULL, ok |-> FALSE]

\* the jmethodID the foreign runtime returns for a name it knows
MethodRef(name) ==
    CASE name = "<init>" -> 20
      [] name = "call"   -> 21
      [] OTHER           -> 22

\* `fault` names the one lookup or allocation that fails in this operation
GetJNIEnv(fault)        == IF fault = "env" THEN NULL ELSE EnvHandle
FindClass(fault, h)     == IF fault = "class" THEN NULL ELSE h
LookupMethod(fault, nm) == IF fault = nm THEN NULL ELSE MethodRef(nm)

resolve_class(jc, hasJavaClass, fault, h) ==
    IF ~hasJavaClass
    THEN [err |-> "MissingClassDeclaration", jc |-> jc, calls |-> <<>>]
    ELSE
    LET env   == GetJNIEnv(fault)
        c1    == <<Call("SDL_ANDROID_GetJNIEnv", NULL, NULL, "", <<>>, env)>>
        jc1   == [jc EXCEPT !.j_env = env]
    IN  IF env = NULL
        THEN [err |-> "MissingEnvironment", jc |-> jc1, calls |-> c1]
        ELSE
        LET cls == FindClass(fault, h)
            c2  == Append(c1, Call("FindClass", NULL, NULL, "", <<>>, cls))
            jc2 == [jc1 EXCEPT !.j_cls = cls]
        IN  IF cls = NULL
            THEN [err |-> "ClassNotFound", jc |-> jc2, calls |-> c2]
            ELSE [err |-> "", jc |-> jc2, calls |-> c2]

\* JavaMethod.resolve_method: the method after the copy of the owner's handles
\* and the lookup, and whether the assert held
resolve_method(jm, jc, inst, fault) ==
    LET fn  == IF jm.is_static THEN "GetStaticMethodID" ELSE "GetMethodID"
        mid == LookupMethod(fault, jm.name)
    IN  [jm   |-> [jm EXCEPT !.jc = inst, !.j_env = jc.j_env, !.j_cls = jc.j_cls,
                             !.j_self = jc.j_self, !.j_method = mid],
         call |-> Call(fn, jc.j_cls, NULL, jm.name, <<>>, mid),
         err  |-> IF mid # NULL THEN "" ELSE "AssertionError"]

\* the loop of resolve_methods from member k on, in dir() order
RECURSIVE resolve_from(_, _, _, _, _, _)
resolve_from(k, ms, jc, inst, fault, calls) ==
    IF k > Len(ms) THEN [err |-> "", methods |-> ms, calls |-> calls]
    ELSE LET r   == resolve_method(ms[k], jc, inst, fault)
             ms1 == [ms EXCEPT ![k] = r.jm]
         IN  IF r.err # ""
             THEN [err |-> r.err, methods |-> ms1, calls |-> Append(calls, r.call)]
             ELSE resolve_from(k + 1, ms1, jc, inst, fault, Append(calls, r.call))

resolve_methods(ms, jc, inst, fault, calls) == resolve_from(1, ms, jc, inst, fault, calls)

\* constructor == NULL raises
constructor_found(constructor) == constructor # NULL

call_constructor(jc, d, args, fault, h, calls) ==
    LET definition == IF d.hasConstructor THEN d.javaconstructor ELSE Sig(<<>>, Chars("V"))
        p          == parse_definition(definition)
        d_args     == p.args
    IN  IF p.err # "" THEN [err |-> p.err, jc |-> jc, calls |-> calls]
        ELSE IF ArityMismatch(args, d_args)
        THEN [err |-> "ArityMismatch", jc |-> jc, calls |-> calls]
        ELSE IF Len(args) > 0 /\ fault = "malloc"
        THEN [err |-> "MemoryError", jc |-> jc, calls |-> calls]
        ELSE
        LET allocated == Len(args) > 0
            m == IF allocated
                 THEN populate_args(d_args, malloc(d_args), args, Append(calls, MallocCall))
                 ELSE [err |-> "", j_args |-> <<>>, calls |-> calls]
        IN  IF m.err # ""
            THEN [err |-> m.err, jc |-> jc, calls |-> finally_free(allocated, m.calls)]
            ELSE
            LET constructor == LookupMethod(fault, "<init>")
                c1 == Append(m.calls,
                             Call("GetMethodID", jc.j_cls, NULL, "<init>", <<>>, constructor))
            IN  IF ~constructor_found(constructor)
                THEN [err |-> "ConstructorNotFound", jc |-> jc,
                      calls |-> finally_free(allocated, c1)]
                ELSE [err |-> "",
                      jc  |-> [jc EXCEPT !.j_self = h, !.ok = TRUE],
                      calls |-> finally_free(allocated,
                          Append(c1, Call("NewObjectA", jc.j_cls, constructor, "<init>",
                                          m.j_args, h)))]

\* JavaClass.__init__ with the constructor called before the methods are resolved
JavaClass__init___ConstructsFirst(d, ms, inst, args, fault, h) ==
    LET rc == resolve_class(JavaClass__cinit__, d.hasJavaClass, fault, h)
    IN  IF rc.err # ""
        THEN [err |-> rc.err, jc |-> rc.jc, methods |-> ms, calls |-> rc.calls]
        ELSE
        LET cc == call_constructor(rc.jc, d, args, fault, h + 1, rc.calls)
        IN  IF cc.err # ""
            THEN [err |-> cc.err, jc |-> cc.jc, methods |-> ms, calls |-> cc.calls]
            ELSE
            LET rm == resolve_methods(ms, cc.jc, inst, fault, cc.calls)
            IN  [err |-> rm.err, jc |-> cc.jc, methods |-> rm.methods, calls |-> rm.calls]

\* JavaClass.__init__: resolve_class(); resolve_methods(); call_constructor(args)
JavaClass__init__(d, ms, inst, args, fault, h) ==
    LET rc == resolve_class(JavaClass__cinit__, d.hasJavaClass, fault, h)
    IN  IF rc.err # ""
        THEN [err |-> rc.err, jc |-> rc.jc, methods |-> ms, calls |-> rc.calls]
        ELSE
        LET rm == resolve_methods(ms, rc.jc, inst, fault, rc.calls)
        IN  IF rm.err # ""
            THEN [err |-> rm.err, jc |-> rc.jc, methods |-> rm.methods, calls |-> rm.calls]
            ELSE
            LET cc == call_constructor(rc.jc, d, args, fault, h + 1, rm.calls)
            IN  [err |-> cc.err, jc |-> cc.jc, methods |-> rm.methods, calls |-> cc.calls]

----------------------------------------------------------------------------
(* The declared proxy type and the inputs of the operations *)

ReturnDescriptors ==
    { Chars(c) : c \in {"V", "Z", "B", "C", "S", "I", "J", "F", "D", "X"} }
    \cup { JStringSC, JOther \o <<";">>, JArray }

MethodDefinitions ==
    { Sig(<<>>, r) : r \in ReturnDescriptors }
    \cup { Sig(Chars(c), Chars(c)) : c \in {"Z", "B", "C", "S", "I", "J", "F", "D"} }
    \cup { Sig(JStringSC, JStringSC),
           Sig(JStringSC, JArray),
           Sig(JStringSC \o JArray, Chars("V")),
           Sig(JArray, Chars("V")),
           Sig(JOther \o <<";">>, Chars("V")),
           Sig(<<"I", "I">>, Chars("V")),
           Sig(<<"I", ";", "Z">>, Chars("V")),
           Sig(Chars("I"), Chars("X")) }

ConstructorDefinitions ==
    { Sig(Chars("I"), Chars("V")),
      Sig(JStringSC, Chars("V")),
      Sig(<<"I", "I">>, Chars("V")) }

\* class X(JavaClass): __javaclass__ = ...; [__javaconstructor__ = ...];
\*                     call = JavaMethod(...) or JavaStaticMethod(...)
\*                     getDPI = JavaStaticMethod('()I')
ProxyType(hasJavaClass, hasConstructor, javaconstructor, definition, static) ==
    [hasJavaClass |-> hasJavaClass, hasConstructor |-> hasConstructor,
     javaconstructor |-> javaconstructor,
     members |-> << [name |-> "call", definition |-> definition, static |-> static],
                    [name |-> "getDPI", definition |-> Sig(<<>>, Chars("I")),
                     static |-> TRUE] >>]

ProxyTypes ==
    { ProxyType(TRUE, FALSE, <<>>, def, st) : def \in MethodDefinitions, st \in BOOLEAN }
    \cup { ProxyType(TRUE, TRUE, c, Sig(<<>>, Chars("V")), FALSE) :
             c \in ConstructorDefinitions }
    \cup { ProxyType(FALSE, FALSE, <<>>, Sig(<<>>, Chars("V")), FALSE) }

\* native values handed to constructors and methods
PyValues ==
    { PyInt(1), PyInt(-1), PyInt(300), PyInt(70000), PyText, PyNone, PyJavaObject(50) }

ArgTuples ==
    { <<>> } \cup { <<v>> : v \in PyValues }
    \cup { <<PyText, PyJavaObject(50)>>, <<PyInt(1), PyInt(1)>>, <<PyInt(300), PyText>> }

Faults == {"none", "env", "class", "call", "getDPI", "<init>", "malloc"}

\* what the foreign method may return for return tag r: a fixed value of the
\* type, or the first argument cell echoed back
RawValues(jm, args) ==
    LET r    == IF jm.definition_return = <<>> THEN "" ELSE jm.definition_return[1]
        tag  == CASE r = "Z" -> "z" [] r = "B" -> "b" [] r = "C" -> "c"
                  [] r = "S" -> "s" [] OTHER -> "i"
        echo == IF Len(args) > 0 /\ IsInt(args[1]) THEN {args[1].v} ELSE {}
    IN  IF r = "L" THEN {70}
        ELSE { v \in {0, 300} \cup echo : v >= CellRange(tag).lo /\ v <= CellRange(tag).hi }

----------------------------------------------------------------------------
(* State machine *)

NoOp == [kind |-> "none", inst |-> 0, member |-> 0, args |-> <<>>, err |-> "",
         ret |-> PyNone, j_args |-> <<>>, calls |-> <<>>, jc |-> JavaClass__cinit__]

IdleParse == [A |-> <<>>, R |-> <<>>, done |-> FALSE, err |-> "", ret |-> <<>>,
              args |-> <<>>]

MethodsOf(d) ==
    [k \in 1..Len(d.members) |->
        JavaMethod__init__(d.members[k].name, d.members[k].definition,
                           d.members[k].static)]

Init ==
    /\ pd = IdleParse
    /\ build \in [charSigned : BOOLEAN]
    /\ decl \in ProxyTypes
    /\ methods = MethodsOf(decl)
    /\ instances = <<>>
    /\ nextHandle = 100
    /\ op = NoOp

\* X(*args). The new object stays alive when the caller receives it or when
\* resolve_method stored it in a JavaMethod (jm.jc); otherwise it is dropped.
Construct ==
    /\ op.kind = "none"
    /\ Len(instances) < MaxInstances
    /\ \E args \in ArgTuples, fault \in Faults :
         LET inst == Len(instances) + 1
         IN  \E r \in {JavaClass__init__(decl, methods, inst, args, fault, nextHandle)} :
               /\ IF r.err = "" \/ r.methods # methods
                  THEN /\ instances' = Append(instances, r.jc)
                       /\ nextHandle' = nextHandle + 2
                  ELSE UNCHANGED <<instances, nextHandle>>
               /\ methods' = r.methods
               /\ op' = [kind |-> "construct", inst |-> inst, member |-> 0,
                         args |-> args, err |-> r.err, ret |-> PyNone,
                         j_args |-> <<>>, calls |-> r.calls, jc |-> r.jc]
    /\ UNCHANGED <<pd, build, decl>>

\* x.member(*args) on a constructed instance x
Invoke ==
    /\ op.kind = "none"
    /\ \E inst \in 1..Len(instances), k \in 1..Len(methods), args \in ArgTuples :
         /\ instances[inst].ok
         /\ \E raw \in RawValues(methods[k], args),
               mallocOk \in IF Len(args) > 0 THEN BOOLEAN ELSE {TRUE} :
              \E r \in {JavaMethod__call__(methods[k], args, raw, mallocOk,
                                           build.charSigned)} :
                op' = [kind |-> "invoke", inst |-> inst, member |-> k, args |-> args,
                       err |-> r.err, ret |-> r.ret, j_args |-> r.j_args,
                       calls |-> r.calls, jc |-> instances[inst]]
    /\ UNCHANGED <<pd, build, decl, methods, instances, nextHandle>>

\* the caller takes the value or the exception and goes on
Resume ==
    /\ op.kind # "none"
    /\ op' = NoOp
    /\ UNCHANGED <<pd, build, decl, methods, instances, nextHandle>>

Next == Construct \/ Invoke \/ Resume

Spec == Init /\ [][Next]_vars

----------------------------------------------------------------------------
(* parse_definition applied to bounded signatures *)

ParseAlphabet == {"I", ";", "L"}

ArgumentPortions == UNION { [1..n -> ParseAlphabet] : n \in 0..MaxLen }

InitParse ==
    /\ pd \in { [IdleParse EXCEPT !.A = a, !.R = r] :
                  a \in ArgumentPortions, r \in {Chars("V"), <<"L", "o", ";">>, <<>>} }
    /\ build = [charSigned |-> TRUE]
    /\ decl = ProxyType(TRUE, FALSE, <<>>, Sig(<<>>, Chars("V")), FALSE)
    /\ methods = MethodsOf(decl)
    /\ instances = <<>>
    /\ nextHandle = 100
    /\ op = NoOp

ParseDefinition ==
    /\ ~pd.done
    /\ LET p == parse_definition(Sig(pd.A, pd.R))
       IN  pd' = [pd EXCEPT !.done = TRUE, !.err = p.err, !.ret = p.ret, !.args = p.args]
    /\ UNCHANGED <<build, decl, methods, instances, nextHandle, op>>

NextParse == ParseDefinition

SpecParse == InitParse /\ [][NextParse]_vars

----------------------------------------------------------------------------
(* Vocabulary of the properties *)

InstanceEntryPoints ==
    {"CallVoidMethodA", "CallBooleanMethodA", "CallByteMethodA", "CallCharMethodA",
     "CallShortMethodA", "CallIntMethodA", "CallLongMethodA", "CallFloatMethodA",
     "CallDoubleMethodA", "CallObjectMethodA"}

StaticEntryPoints ==
    {"CallStaticVoidMethodA", "CallStaticBooleanMethodA", "CallStaticByteMethodA",
     "CallStaticCharMethodA", "CallStaticShortMethodA", "CallStaticIntMethodA",
     "CallStaticLongMethodA", "CallStaticFloatMethodA", "CallStaticDoubleMethodA",
     "CallStaticObjectMethodA"}

EntryPoints == InstanceEntryPoints \cup StaticEntryPoints

\* the entry point the return tag and the static flag select
EntryPointFor(tag, static) ==
    LET type == CASE tag = "V" -> "Void"  [] tag = "Z" -> "Boolean" [] tag = "B" -> "Byte"
                  [] tag = "C" -> "Char"  [] tag = "S" -> "Short"   [] tag = "I" -> "Int"
                  [] tag = "J" -> "Long"  [] tag = "F" -> "Float"   [] tag = "D" -> "Double"
                  [] OTHER -> "Object"
    IN  CASE type = "Void"    -> IF static THEN "CallStaticVoidMethodA" ELSE "CallVoidMethodA"
          [] type = "Boolean" -> IF static THEN "CallStaticBooleanMethodA" ELSE "CallBooleanMethodA"
          [] type = "Byte"    -> IF static THEN "CallStaticByteMethodA" ELSE "CallByteMethodA"
          [] type = "Char"    -> IF static THEN "CallStaticCharMethodA" ELSE "CallCharMethodA"
          [] type = "Short"   -> IF static THEN "CallStaticShortMethodA" ELSE "CallShortMethodA"
          [] type = "Int"     -> IF static THEN "CallStaticIntMethodA" ELSE "CallIntMethodA"
          [] type = "Long"    -> IF static THEN "CallStaticLongMethodA" ELSE "CallLongMethodA"
          [] type = "Float"   -> IF static THEN "CallStaticFloatMethodA" ELSE "CallFloatMethodA"
          [] type = "Double"  -> IF static THEN "CallStaticDoubleMethodA" ELSE "CallDoubleMethodA"
          [] OTHER            -> IF static THEN "CallStaticObjectMethodA" ELSE "CallObjectMethodA"

DispatchTags == {"V", "Z", "B", "C", "S", "I", "J", "F", "D", "L"}

\* positions in the calls of the last operation
CallIdx == 1..Len(op.calls)
IdxOf(fns) == { i \in CallIdx : op.calls[i].fn \in fns }
IsLookup(c) == c.fn \in {"GetMethodID", "GetStaticMethodID"}
MemberLookupIdx == { i \in CallIdx : IsLookup(op.calls[i]) /\ op.calls[i].name # "<init>" }
CtorLookupIdx   == { i \in CallIdx : IsLookup(op.calls[i]) /\ op.calls[i].name = "<init>" }
\* calls into the host or the foreign runtime (everything but the libc buffer calls)
ForeignIdx == { i \in CallIdx : op.calls[i].fn \notin {"malloc", "free"} }

\* the argument descriptors the last operation was checked against
OpDescriptors ==
    IF op.kind = "invoke" THEN methods[op.member].definition_args
    ELSE parse_definition(IF decl.hasConstructor THEN decl.javaconstructor
                          ELSE Sig(<<>>, Chars("V"))).args

OpArityMismatch == op.kind # "none" /\ Len(op.args) # Len(OpDescriptors)

IsArrayToken(tok) == tok # <<>> /\ tok[1] = "["

IsRecognised(tok) ==
    \/ tok \in { Chars(c) : c \in {"Z", "B", "C", "S", "I", "J", "F", "D"} }
    \/ (tok # <<>> /\ tok[1] \in {"L", "["})

\* errors of the resolve-class and resolve-methods steps of a construction
ResolveErrors ==
    {"MissingClassDeclaration", "MissingEnvironment", "ClassNotFound", "AssertionError"}

----------------------------------------------------------------------------
(* C1 *)

\* C1: every instance-method invocation made through a constructed proxy passes
\* that proxy's instance handle (stored by its constructor's NewObjectA) as the
\* receiver, and every static invocation passes that proxy's class handle.
C1_ReceiverIsProxyHandle ==
    op.kind = "invoke" =>
        \A i \in CallIdx :
            /\ op.calls[i].fn \in InstanceEntryPoints
                 => op.calls[i].recv = instances[op.inst].j_self
            /\ op.calls[i].fn \in StaticEntryPoints
                 => op.calls[i].recv = instances[op.inst].j_cls

----------------------------------------------------------------------------
(* C2 *)

\* C2: an invocation whose return descriptor is 'Ljava/lang/String;' delivers a
\* native text (not a JavaObject), and reads the foreign string with
\* GetStringUTFChars followed by exactly one ReleaseStringUTFChars on it.
C2_StringReturnIsText ==
    (/\ op.kind = "invoke"
     /\ op.err = ""
     /\ methods[op.member].definition_return = JStringSC)
    => /\ op.ret.t = "str"
       /\ Cardinality(IdxOf({"GetStringUTFChars"})) = 1
       /\ Cardinality(IdxOf({"ReleaseStringUTFChars"})) = 1
       /\ \A i \in IdxOf({"GetStringUTFChars"}), j \in IdxOf({"ReleaseStringUTFChars"}) :
            i < j /\ op.calls[i].recv = op.calls[j].recv

----------------------------------------------------------------------------
(* C3 *)

----------------------------------------------------------------------------
(* C4 *)

\* C4: every argument buffer an operation allocates is released exactly once
\* before the operation returns or raises, after every other call of the
\* operation, whatever the exit path; an operation with no argument allocates
\* nothing and frees nothing, and nothing is freed that was not allocated.
C4_BufferReleasedExactlyOnce ==
    op.kind # "none" =>
        /\ Cardinality(IdxOf({"malloc"})) <= 1
        /\ Cardinality(IdxOf({"free"})) = Cardinality(IdxOf({"malloc"}))
        /\ \A i \in IdxOf({"malloc"}), j \in IdxOf({"free"}) : i < j
        /\ \A j \in IdxOf({"free"}) : j = Len(op.calls)
        /\ Len(op.args) = 0 => IdxOf({"malloc", "free"}) = {}

\* a marshaling failure inside populate_args after the buffer was allocated
C4_Witness ==
    /\ op.kind # "none"
    /\ op.err = "InvalidArgument"
    /\ IdxOf({"malloc"}) # {}
    /\ IdxOf({"free"}) # {}

----------------------------------------------------------------------------
(* C5 *)

\* C5: when an array descriptor appears in a bound method's signature, as an
\* argument token or as the return descriptor, an arity-correct invocation (whose
\* buffer could be allocated) fails with the NotImplemented error and makes no
\* foreign-runtime call.
C5_ArrayFailsWithoutForeignCall ==
    (/\ op.kind = "invoke"
     /\ ~OpArityMismatch
     /\ op.err # "MemoryError"
     /\ \/ IsArrayToken(methods[op.member].definition_return)
        \/ \E k \in 1..Len(OpDescriptors) : IsArrayToken(OpDescriptors[k]))
    => op.err = "NotImplementedError" /\ ForeignIdx = {}

----------------------------------------------------------------------------
(* C6 *)

\* the range the claim gives each integer-like descriptor
DeclaredRange(c) ==
    CASE c = "Z" -> [lo |-> 0, hi |-> 1]
      [] c = "B" -> [lo |-> -128, hi |-> 127]
      [] c = "C" -> [lo |-> 0, hi |-> 65535]
      [] c = "S" -> [lo |-> -32768, hi |-> 32767]
      [] OTHER   -> [lo |-> -2147483647, hi |-> 2147483647]

\* C6: for a method (T)T with T one of Z, B, C, S, I, J and an argument within
\* the declared width of T, when the foreign method returns the argument cell
\* unchanged the value delivered to the caller equals the argument.
C6_IntegerEchoRoundTrip ==
    (/\ op.kind = "invoke"
     /\ op.err = ""
     /\ \E c \in {"Z", "B", "C", "S", "I", "J"} :
          /\ methods[op.member].definition_args = <<Chars(c)>>
          /\ methods[op.member].definition_return = Chars(c)
          /\ IsInt(op.args[1])
          /\ op.args[1].v >= DeclaredRange(c).lo
          /\ op.args[1].v <= DeclaredRange(c).hi
     /\ \E i \in IdxOf(EntryPoints) : op.calls[i].res = op.calls[i].args[1].v)
    => op.ret.v = op.args[1].v

----------------------------------------------------------------------------
(* C8 *)

\* what the caller receives when the entry point's value arrives undistorted
Delivered(tag, res) ==
    CASE tag = "V" -> PyNone
      [] tag = "Z" -> PyBool(res # 0)
      [] tag = "L" -> PyJavaObject(res)
      [] OTHER     -> PyInt(res)

\* C8: an arity-correct invocation whose arguments were marshaled and whose
\* return tag is one of V Z B C S I J F D L calls exactly one typed entry point,
\* the one of that tag and of the method's static flag, and delivers the value
\* it returned; a tag outside this set other than '[' fails with the
\* invalid-return-descriptor error after no entry-point call.
C8_ExactlyOneMatchingEntryPoint ==
    (/\ op.kind = "invoke"
     /\ ~OpArityMismatch
     /\ op.err \notin {"MemoryError", "InvalidArgument", "TypeError", "OverflowError"}
     /\ methods[op.member].definition_return # <<>>)
    => LET jm  == methods[op.member]
           tag == jm.definition_return[1]
       IN  /\ tag \in DispatchTags =>
                /\ Cardinality(IdxOf(EntryPoints)) = 1
                /\ \A i \in IdxOf(EntryPoints) :
                     /\ op.calls[i].fn = EntryPointFor(tag, jm.is_static)
                     /\ jm.definition_return # JStringSC
                          => op.ret = Delivered(tag, op.calls[i].res)
           /\ tag \notin DispatchTags \cup {"["} =>
                op.err = "InvalidReturnDescriptor" /\ IdxOf(EntryPoints) = {}

----------------------------------------------------------------------------
(* C9 *)

\* C9: when the first descriptor token the marshaler meets is not a recognised
\* descriptor, the operation fails with InvalidDescriptor; and NewObjectA and the
\* typed entry points never receive a buffer with a cell that was left unwritten.
C9_UnrecognisedDescriptorRejected ==
    op.kind # "none" =>
        /\ (/\ IdxOf({"malloc"}) # {}
            /\ ~IsRecognised(OpDescriptors[1]))
           => op.err = "InvalidDescriptor"
        /\ \A i \in IdxOf(EntryPoints \cup {"NewObjectA"}) :
             \A k \in 1..Len(op.calls[i].args) : op.calls[i].args[k] # Unwritten

----------------------------------------------------------------------------
(* C10 *)

\* the step of the construction protocol a call belongs to
StepOfCall(c) ==
    IF c.fn \in {"SDL_ANDROID_GetJNIEnv", "FindClass"} THEN 1
    ELSE IF IsLookup(c) /\ c.name # "<init>" THEN 2
    ELSE 3

\* the step in which an error of a construction is raised
StepOfError(e) ==
    IF e \in {"MissingClassDeclaration", "MissingEnvironment", "ClassNotFound"} THEN 1
    ELSE IF e = "AssertionError" THEN 2
    ELSE 3

----------------------------------------------------------------------------
(* C7 *)

\* C7 as stated: for '(' + A + ')' + R, joining the tokens parse_definition
\* returns with ';' reproduces A exactly, also when A ends with ';'.
C7_JoinReproducesArguments ==
    pd.done => pd.err = "" /\ pd.ret = pd.R /\ join(pd.args, ";") = pd.A

\* A without one terminal ';'
WithoutTerminalDelimiter(a) ==
    IF a # <<>> /\ a[Len(a)] = ";" THEN Front(a) ELSE a

\* C7 amended: parse_definition returns (R, tokens) such that joining the tokens
\* with ';' reproduces A with one terminal ';' dropped when A ends with ';', and
\* reproduces A exactly otherwise.
C7_JoinReproducesArgumentsButTerminal ==
    pd.done =>
        /\ pd.err = ""
        /\ pd.ret = pd.R
        /\ join(pd.args, ";") = WithoutTerminalDelimiter(pd.A)

\* a parsed signature whose argument portion ends with the delimiter
C7_Witness ==
    /\ pd.done
    /\ Len(pd.A) > 1
    /\ pd.A[Len(pd.A)] = ";"
    /\ Len(pd.args) >= 1

====
